---- MODULE Spec2Model ----
(***************************************************************************)
(* A model of helpers/json.h: the json::Value tagged union with its        *)
(* variant classes, json::Array and json::Struct (which hold Value*        *)
(* pointers into the free store), and Value::Parser.                       *)
(*                                                                         *)
(* Text is a sequence of one-character strings.  The free store is the     *)
(* variable heap: address 0 is the global json::undefined, every other     *)
(* address is a Value made by a new-expression.                            *)
(***************************************************************************)
EXTENDS Integers, Sequences, FiniteSets, TLC

VARIABLES heap,        \* the free store: address -> [obj, live]
          fault,       \* "none", or the undefined behaviour that was executed
          structObj,   \* a json::Struct object (elements_, elementsByName_, comment_)
          ref,         \* the Value & last returned by Struct::operator[] (an address)
          last,        \* the last operation, with the state before it
          firstOrder,  \* the member names in order of first insertion
          slots,       \* Value, Array and Struct objects with automatic storage
          eqA, eqB,    \* the operands of a comparison
          eqOut,       \* what the comparison operators returned for them
          parser,      \* a Value::Parser: the stream s_ and the position l_, c_
          pc,          \* where the parse is
          calls,       \* the activations of json::parse(std::istream &)
          build,       \* what the compiler chose where the language leaves it open
          local,       \* the locals of the tokenizer function that is running
          tok,         \* the Token that next() returned
          frames,      \* the activations of Parser::parse(Token) and parseWithComment
          val,         \* the Value being returned to the caller
          result,      \* the Value that the parse returned
          orig,        \* the Value whose rendered text is parsed, if any
          thrown,      \* the exception that left the parse
          asOut,       \* what Value::as<T> did on eqA
          copyOut,     \* the Value b made or assigned from eqA
          doc,         \* a Value written to a stream
          out          \* what operator << wrote for it

structVars == <<structObj, ref, last, firstOrder>>
eqVars == <<eqA, eqB, eqOut, asOut, copyOut>>
parseVars == <<parser, pc, calls, build, local, tok, frames, val, result, orig, thrown>>
renderVars == <<doc, out>>
notStructVars == <<slots, eqVars, parseVars, renderVars>>
notHeapVars == <<structVars, eqVars, parseVars, renderVars>>
notEqVars == <<heap, fault, structVars, slots, parseVars, renderVars>>
notParseVars == <<structVars, slots, eqVars, renderVars>>
notRenderVars == <<fault, structVars, slots, eqVars, parseVars>>
vars == <<heap, fault, structVars, slots, eqVars, parseVars, renderVars>>

-----------------------------------------------------------------------------
(* Bounds *)

MaxNodes == 3        \* Values the free store can hold
MaxInt == 2          \* the ints 1..MaxInt are used as values

-----------------------------------------------------------------------------
(* Text *)

Digits == <<"0", "1", "2", "3", "4", "5", "6", "7", "8", "9">>

TxtUndefined == <<"u", "n", "d", "e", "f", "i", "n", "e", "d">>
TxtNull == <<"N", "u", "l", "l">>
TxtTrue == <<"t", "r", "u", "e">>
TxtFalse == <<"f", "a", "l", "s", "e">>
TxtNan == <<"n", "a", "n">>
TxtSep == <<",", " ">>
TxtColon == <<" ", ":", " ">>

Abs(n) == IF n < 0 THEN -n ELSE n

RECURSIVE NatText(_)
NatText(n) == IF n < 10 THEN <<Digits[n + 1]>>
              ELSE NatText(n \div 10) \o <<Digits[(n % 10) + 1]>>

\* operator << (std::ostream &, int)
IntText(n) == IF n < 0 THEN <<"-">> \o NatText(-n) ELSE NatText(n)

\* operator << (std::ostream &, double), default format (%g, precision 6), for
\* a double kept as a whole number of tenths: no trailing zeros, no trailing '.'
DoubleText(d) ==
    IF d.nan THEN TxtNan
    ELSE IF d.tenths % 10 = 0 THEN IntText(d.tenths \div 10)
    ELSE (IF d.tenths < 0 THEN <<"-">> ELSE <<>>)
         \o NatText(Abs(d.tenths) \div 10) \o <<".">>
         \o NatText(Abs(d.tenths) % 10)

-----------------------------------------------------------------------------
(* json::Value and its variants *)

Kinds == {"Undefined", "Null", "Bool", "Int", "Double", "String", "Array", "Struct"}

NoNames == [n \in {} |-> 0]
NoDouble == [nan |-> FALSE, tenths |-> 0]
Dbl(t) == [nan |-> FALSE, tenths |-> t]
NaN == [nan |-> TRUE, tenths |-> 0]

\* The union of Value with its discriminant; the fields of the inactive
\* members hold a fixed filler.
Blank(k) == [kind_ |-> k, valueBool_ |-> FALSE, valueInt_ |-> 0,
             valueDouble_ |-> NoDouble, valueString_ |-> <<>>,
             elements_ |-> <<>>, elementsByName_ |-> NoNames, comment_ |-> <<>>]

ValueDefault == Blank("Undefined")
ValueOfUndefined(comment) == Blank("Undefined")
ValueOfNull(comment) == Blank("Null")
ValueOfBool(b) == [Blank("Bool") EXCEPT !.valueBool_ = b]
ValueOfInt(i) == [Blank("Int") EXCEPT !.valueInt_ = i]
ValueOfDouble(d) == [Blank("Double") EXCEPT !.valueDouble_ = d]
ValueOfString(s) == [Blank("String") EXCEPT !.valueString_ = s]
EmptyArray == Blank("Array")
EmptyStruct == Blank("Struct")

setComment(v, comment) == [v EXCEPT !.comment_ = comment]

\* Value(Value const &): Undefined and Null are made afresh, every other
\* payload is copy-constructed.  Array and Struct declare a destructor and no
\* copy constructor: the implicit one copies the vector of pointers.
ValueCopy(from) ==
    IF from.kind_ \in {"Undefined", "Null"} THEN Blank(from.kind_) ELSE from

\* json::undefined
undefined == ValueOfUndefined(<<>>)

-----------------------------------------------------------------------------
(* Equality *)

\* Bool, Int, Double, String: operator == and operator != (both return
\* value_ == other.value_)
BoolEq(a, b) == a.valueBool_ = b.valueBool_
BoolNe(a, b) == a.valueBool_ = b.valueBool_
IntEq(a, b) == a.valueInt_ = b.valueInt_
IntNe(a, b) == a.valueInt_ = b.valueInt_
\* == on double: a NaN equals nothing, itself included
DoubleValueEq(x, y) == ~x.nan /\ ~y.nan /\ x.tenths = y.tenths
DoubleEq(a, b) == DoubleValueEq(a.valueDouble_, b.valueDouble_)
DoubleNe(a, b) == DoubleValueEq(a.valueDouble_, b.valueDouble_)
StringEq(a, b) == a.valueString_ = b.valueString_
StringNe(a, b) == a.valueString_ = b.valueString_

\* Array::operator == and != : elements_[i] is a Value*, the pointers are compared
ArrayEq(a, b) ==
    IF Len(a.elements_) # Len(b.elements_) THEN FALSE
    ELSE \A i \in 1..Len(a.elements_) : ~(a.elements_[i] # b.elements_[i])
ArrayNe(a, b) ==
    IF Len(a.elements_) # Len(b.elements_) THEN TRUE
    ELSE \E i \in 1..Len(a.elements_) : a.elements_[i] # b.elements_[i]

\* Struct::operator == and != : elements_[i] is a pair<string, Value*>
PairNe(p, q) == p.first # q.first \/ p.second # q.second
StructEq(a, b) ==
    IF Len(a.elements_) # Len(b.elements_) THEN FALSE
    ELSE \A i \in 1..Len(a.elements_) : ~PairNe(a.elements_[i], b.elements_[i])
StructNe(a, b) ==
    IF Len(a.elements_) # Len(b.elements_) THEN TRUE
    ELSE \E i \in 1..Len(a.elements_) : PairNe(a.elements_[i], b.elements_[i])

ValueEqNoKind(a, b) ==
    CASE a.kind_ \in {"Undefined", "Null"} -> TRUE
      [] a.kind_ = "Bool" -> BoolEq(a, b)
      [] a.kind_ = "Int" -> IntEq(a, b)
      [] a.kind_ = "Double" -> DoubleEq(a, b)
      [] a.kind_ = "String" -> StringEq(a, b)
      [] a.kind_ = "Array" -> ArrayEq(a, b)
      [] a.kind_ = "Struct" -> StructEq(a, b)

\* Value::operator ==
ValueEq(a, b) ==
    IF a.kind_ # b.kind_ THEN FALSE
    ELSE CASE a.kind_ \in {"Undefined", "Null"} -> TRUE
           [] a.kind_ = "Bool" -> BoolEq(a, b)
           [] a.kind_ = "Int" -> IntEq(a, b)
           [] a.kind_ = "Double" -> DoubleEq(a, b)
           [] a.kind_ = "String" -> StringEq(a, b)
           [] a.kind_ = "Array" -> ArrayEq(a, b)
           [] a.kind_ = "Struct" -> StructEq(a, b)

\* friend operator == (Undefined const & a, Value const & b): b == Value(a)
UndefinedEqValue(comment, b) == ValueEq(b, ValueOfUndefined(comment))

-----------------------------------------------------------------------------
(* The free store *)

\* a reference that designates no Value (an index past the end of elements_)
WildRef == 0 - 1

NewAddr(h) == Cardinality(DOMAIN h)
Alloc(h, v) == (NewAddr(h) :> [obj |-> v, live |-> TRUE]) @@ h
InitHeap == (0 :> [obj |-> undefined, live |-> TRUE])

Seconds(elements) == [i \in DOMAIN elements |-> elements[i].second]
Firsts(elements) == [i \in DOMAIN elements |-> elements[i].first]

\* The pointers a payload owns: Array::~Array and Struct::~Struct delete each
Owned(v) == CASE v.kind_ = "Array" -> v.elements_
              [] v.kind_ = "Struct" -> Seconds(v.elements_)
              [] OTHER -> <<>>

\* delete e, for each e in turn: ~Value runs detach, which destroys an Array
\* or a Struct payload, which deletes its elements.  st is [heap, fault]; the
\* storage of a deleted Value holds nothing that may be read.
RECURSIVE DeleteSeq(_, _)
DeleteNode(st, a) ==
    IF st.fault # "none" THEN st
    ELSE IF a \notin DOMAIN st.heap \/ a = 0 THEN [st EXCEPT !.fault = "wild_delete"]
    ELSE IF ~st.heap[a].live THEN [st EXCEPT !.fault = "double_free"]
    ELSE DeleteSeq([st EXCEPT !.heap[a] = [obj |-> ValueDefault, live |-> FALSE]],
                   Owned(st.heap[a].obj))
DeleteSeq(st, addrs) ==
    IF addrs = <<>> THEN st
    ELSE DeleteSeq(DeleteNode(st, Head(addrs)), Tail(addrs))

\* Value::detach
detach(st, v) == DeleteSeq(st, Owned(v))

\* Value::operator = (Value const &) and (Value const &&), on the Value at
\* address a: detach, then the payload is made as the copy constructor makes it
\* (std::move of a const Value copies).
ValueAssign(st, a, other) ==
    LET st1 == detach(st, st.heap[a].obj)
    IN  [st1 EXCEPT !.heap[a].obj = ValueCopy(other)]

-----------------------------------------------------------------------------
(* Rendering *)

RECURSIVE RenderValue(_, _), RenderArrayFrom(_, _, _), RenderStructFrom(_, _, _)

\* operator << (std::ostream &, Array const &), from element i on
RenderArrayFrom(h, elements, i) ==
    IF i > Len(elements) THEN <<>>
    ELSE RenderValue(h, h[elements[i]].obj)
         \o (IF i + 1 <= Len(elements) THEN TxtSep ELSE <<>>)
         \o RenderArrayFrom(h, elements, i + 1)

\* operator << (std::ostream &, Struct const &), from member i on
RenderStructFrom(h, elements, i) ==
    IF i > Len(elements) THEN <<>>
    ELSE <<"\"">> \o elements[i].first \o <<"\"">> \o TxtColon
         \o RenderValue(h, h[elements[i].second].obj)
         \o (IF i + 1 <= Len(elements) THEN TxtSep ELSE <<>>)
         \o RenderStructFrom(h, elements, i + 1)

RenderValueWithComment(h, v) ==
    (IF v.comment_ = <<>> THEN <<>> ELSE <<"/", "*">> \o v.comment_ \o <<"*", "/">>)
    \o CASE v.kind_ = "Undefined" -> TxtUndefined
          [] v.kind_ = "Null" -> TxtNull
          [] v.kind_ = "Bool" -> (IF v.valueBool_ THEN TxtTrue ELSE TxtFalse)
          [] v.kind_ = "Int" -> IntText(v.valueInt_)
          [] v.kind_ = "Double" -> DoubleText(v.valueDouble_)
          [] v.kind_ = "String" -> <<"\"">> \o v.valueString_ \o <<"\"">>
          [] v.kind_ = "Array" -> <<"[">> \o RenderArrayFrom(h, v.elements_, 1) \o <<"]">>
          [] v.kind_ = "Struct" -> <<"{">> \o RenderStructFrom(h, v.elements_, 1) \o <<"}">>

\* operator << (std::ostream &, Value const &) and the variants' operator <<
RenderValue(h, v) ==
    CASE v.kind_ = "Undefined" -> TxtUndefined
      [] v.kind_ = "Null" -> TxtNull
      [] v.kind_ = "Bool" -> (IF v.valueBool_ THEN TxtTrue ELSE TxtFalse)
      [] v.kind_ = "Int" -> IntText(v.valueInt_)
      [] v.kind_ = "Double" -> DoubleText(v.valueDouble_)
      [] v.kind_ = "String" -> <<"\"">> \o v.valueString_ \o <<"\"">>
      [] v.kind_ = "Array" -> <<"[">> \o RenderArrayFrom(h, v.elements_, 1) \o <<"]">>
      [] v.kind_ = "Struct" -> <<"{">> \o RenderStructFrom(h, v.elements_, 1) \o <<"}">>

-----------------------------------------------------------------------------
(* json::Struct *)

ElementAtFromOne(s, i) ==
    IF i \in DOMAIN s.elements_ THEN s.elements_[i].second ELSE WildRef

\* *elements_[i].second for a position i (from 0)
ElementAt(s, i) ==
    IF i + 1 \in DOMAIN s.elements_ THEN s.elements_[i + 1].second ELSE WildRef

StructIndexConstFirst(s, i) ==
    IF i \notin DOMAIN s.elementsByName_ THEN ElementAt(s, 0)
    ELSE ElementAt(s, s.elementsByName_[i])

\* Struct::operator [] (std::string const &) const: the address of the member's
\* Value, or of json::undefined (address 0)
StructIndexConst(s, i) ==
    IF i \notin DOMAIN s.elementsByName_ THEN 0
    ELSE ElementAt(s, s.elementsByName_[i])

NewPositionAfterPush(s) == Cardinality(DOMAIN s.elementsByName_) + 1

\* the position the mutable operator [] records for a new name:
\* elementsByName_.size(), taken before the insertion
NewPosition(s) == Cardinality(DOMAIN s.elementsByName_)

StructIndexAlwaysAppend(s, h, i) ==
    LET s2 == [s EXCEPT !.elementsByName_ = (i :> NewPosition(s)) @@ @,
                        !.elements_ = Append(@, [first |-> i, second |-> NewAddr(h)])]
    IN  [s |-> s2, heap |-> Alloc(h, ValueOfUndefined(<<>>)), ref |-> NewAddr(h)]

\* Struct::operator [] (std::string const &): [s, heap, ref] after the call
StructIndex(s, h, i) ==
    IF i \notin DOMAIN s.elementsByName_
    THEN LET pos == NewPosition(s)
             s2 == [s EXCEPT !.elementsByName_ = (i :> pos) @@ @,
                             !.elements_ = Append(@, [first |-> i, second |-> NewAddr(h)])]
         IN  [s |-> s2, heap |-> Alloc(h, ValueOfUndefined(<<>>)), ref |-> ElementAt(s2, pos)]
    ELSE [s |-> s, heap |-> h, ref |-> ElementAt(s, s.elementsByName_[i])]

\* The names and the values the operations are called with
StructNames == {<<"a">>, <<"b">>, <<"z", "a">>}
StructValues == {ValueOfBool(TRUE), ValueOfString(<<"b", "a", "r">>),
                 setComment(ValueOfInt(2), <<"k">>)}

Op(op, name, arg, eq) ==
    [op |-> op, name |-> name, arg |-> arg, eq |-> eq,
     pre |-> structObj, preHeap |-> heap, preRef |-> ref]

HasRoom(h) == NewAddr(h) <= MaxNodes

\* Objects with automatic storage: a json::Array, a json::Struct or a
\* json::Value variable (type), alive between its construction and the end of
\* its scope.
Slots == {"x", "y"}
NoObject == [live |-> FALSE, type |-> "Value", v |-> ValueDefault]
NoSlots == [s \in Slots |-> NoObject]

\* The initial value of each group of variables
NoCompare == [done |-> FALSE, ab |-> FALSE, ba |-> FALSE, aa |-> FALSE,
              variantDone |-> FALSE, variantEq |-> FALSE, variantNe |-> FALSE,
              undefinedDone |-> FALSE, undefinedEq |-> FALSE]
StartStore == heap = InitHeap /\ fault = "none"
StartStruct ==
    /\ structObj = EmptyStruct
    /\ ref = WildRef
    /\ firstOrder = <<>>
    /\ last = [op |-> "init", name |-> <<>>, arg |-> undefined, eq |-> FALSE,
               pre |-> EmptyStruct, preHeap |-> InitHeap, preRef |-> WildRef]
StartSlots == slots = NoSlots
\* what as<T> did: the kind asked for, and the payload it returned a reference
\* to or the exception it threw
NoException == [type |-> "none", what |-> <<>>]
\* throw "..." : the exception is a char const * to the literal
Literal(what) == [type |-> "char const *", what |-> what]
TxtError == <<"e", "r", "r", "o", "r">>
TxtExpectedBool ==
    <<"E", "x", "p", "e", "c", "t", "e", "d", " ", "b", "o", "o", "l", " ",
      "b", "u", "t", " ", "f", "o", "u", "n", "d">>
NoAs == [done |-> FALSE, T |-> "Undefined", returned |-> FALSE, payload |-> undefined,
         thrown |-> NoException]
NoCopy == [done |-> FALSE, op |-> "none", b |-> undefined]
StartEq ==
    /\ eqA = undefined /\ eqB = undefined /\ eqOut = NoCompare /\ asOut = NoAs
    /\ copyOut = NoCopy
NoOutput == [done |-> FALSE, text |-> <<>>]
StartRender == doc = undefined /\ out = NoOutput
NoLocal == [result |-> <<>>, number |-> 0, delimiter |-> "", l |-> 1, c |-> 1]
NoToken == [line |-> 1, col |-> 1, kind |-> "Undefined", valueBool_ |-> FALSE,
            valueInt_ |-> 0, valueString_ |-> <<>>]
NewParser(text) == [s_ |-> [text |-> text, pos |-> 0, eofbit |-> FALSE], l_ |-> 1, c_ |-> 1]
StartParse ==
    /\ parser = NewParser(<<>>)
    /\ pc = "idle"
    /\ calls = 0
    /\ build = [tailCall |-> FALSE, nrvo |-> FALSE]
    /\ local = NoLocal
    /\ tok = NoToken
    /\ frames = <<>>
    /\ val = undefined
    /\ result = undefined
    /\ orig = [given |-> FALSE, v |-> undefined]
    /\ thrown = NoException

InitStruct ==
    StartStore /\ StartStruct /\ StartSlots /\ StartEq /\ StartParse /\ StartRender

Inserted(order, s, name) ==
    IF name \in DOMAIN s.elementsByName_ THEN order ELSE Append(order, name)

\* s[name] == json::undefined on a Struct const & s
ReadConst(name) ==
    /\ fault = "none"
    /\ LET a == StructIndexConst(structObj, name)
       IN  /\ ref' = a
           /\ IF a \in DOMAIN heap
              THEN /\ last' = Op("read_const", name, undefined, ValueEq(heap[a].obj, undefined))
                   /\ fault' = fault
              ELSE /\ last' = Op("read_const", name, undefined, FALSE)
                   /\ fault' = "out_of_range"
    /\ UNCHANGED <<heap, structObj, firstOrder>>
    /\ UNCHANGED notStructVars

\* x[name] == json::undefined on a Struct x (the accessor of TEST(json, Struct))
ReadMutable(name) ==
    /\ fault = "none"
    /\ name \in DOMAIN structObj.elementsByName_ \/ HasRoom(heap)
    /\ LET r == StructIndex(structObj, heap, name)
       IN  /\ structObj' = r.s
           /\ heap' = r.heap
           /\ ref' = r.ref
           /\ firstOrder' = Inserted(firstOrder, structObj, name)
           /\ IF r.ref \in DOMAIN r.heap
              THEN /\ last' = Op("read_mutable", name, undefined,
                                 ValueEq(r.heap[r.ref].obj, undefined))
                   /\ fault' = fault
              ELSE /\ last' = Op("read_mutable", name, undefined, FALSE)
                   /\ fault' = "out_of_range"
    /\ UNCHANGED notStructVars

\* an assignment through the reference the last lookup returned
AssignRef(value) ==
    /\ fault = "none"
    /\ last.op = "read_mutable"
    /\ ref \in DOMAIN heap /\ ref # 0
    /\ LET st == ValueAssign([heap |-> heap, fault |-> fault], ref, value)
       IN  heap' = st.heap /\ fault' = st.fault
    /\ last' = Op("assign_ref", last.name, value, FALSE)
    /\ UNCHANGED <<structObj, ref, firstOrder>>
    /\ UNCHANGED notStructVars

\* Struct::set(name, value): (*this)[name] = value
StructSet(name, value) ==
    /\ fault = "none"
    /\ name \in DOMAIN structObj.elementsByName_ \/ HasRoom(heap)
    /\ LET r == StructIndex(structObj, heap, name)
       IN  /\ structObj' = r.s
           /\ ref' = r.ref
           /\ firstOrder' = Inserted(firstOrder, structObj, name)
           /\ IF r.ref \in DOMAIN r.heap
              THEN LET st == ValueAssign([heap |-> r.heap, fault |-> fault], r.ref, value)
                   IN  heap' = st.heap /\ fault' = st.fault
              ELSE heap' = r.heap /\ fault' = "out_of_range"
    /\ last' = Op("set", name, value, FALSE)
    /\ UNCHANGED notStructVars

NextStruct ==
    \/ \E name \in StructNames : ReadConst(name)
    \/ \E name \in StructNames : ReadMutable(name)
    \/ \E value \in StructValues : AssignRef(value)
    \/ \E name \in StructNames, value \in StructValues : StructSet(name, value)

SpecStruct == InitStruct /\ [][NextStruct]_vars

-----------------------------------------------------------------------------
(* Construction, copy, assignment and destruction of Values and containers *)

HeapScalars == {ValueOfInt(i) : i \in 1..MaxInt}
HeapNames == {<<"a">>, <<"b">>}

InitHeapSpec ==
    StartStore /\ StartStruct /\ StartSlots /\ StartEq /\ StartParse /\ StartRender

Object(type, v) == [live |-> TRUE, type |-> type, v |-> v]
Live(s) == slots[s].live
IsContainer(s) == slots[s].type \in {"Array", "Struct"}

\* json::Array s{};  json::Struct s{};  json::Value s{value};
Construct(s, type, v) ==
    /\ fault = "none"
    /\ ~Live(s)
    /\ slots' = [slots EXCEPT ![s] = Object(type, v)]
    /\ UNCHANGED <<heap, fault>>
    /\ UNCHANGED notHeapVars

\* json::Value s{src} (Value(Value const &), Value(Array const &),
\* Value(Struct const &)) and json::Array s{src}, json::Struct s{src} (the
\* implicit copy constructors): asValue tells which
CopyConstruct(s, src, asValue) ==
    /\ fault = "none"
    /\ ~Live(s) /\ Live(src)
    /\ asValue \/ IsContainer(src)
    /\ slots' = [slots EXCEPT ![s] =
                    Object(IF asValue THEN "Value" ELSE slots[src].type, ValueCopy(slots[src].v))]
    /\ UNCHANGED <<heap, fault>>
    /\ UNCHANGED notHeapVars

\* the end of the scope of s: ~Value (detach), ~Array, ~Struct
Destroy(s) ==
    /\ fault = "none"
    /\ Live(s)
    /\ LET st == detach([heap |-> heap, fault |-> fault], slots[s].v)
       IN  heap' = st.heap /\ fault' = st.fault
    /\ slots' = [slots EXCEPT ![s] = NoObject]
    /\ UNCHANGED notHeapVars

\* The argument Value const & of add and set: a Value variable binds directly;
\* an Array or a Struct variable is converted, Value(Array const &), to a
\* temporary Value that is destroyed at the end of the call, its detach
\* deleting the elements it copied the pointers of.
EndOfCall(st, src) ==
    IF IsContainer(src) THEN detach(st, slots[src].v) ELSE st

\* Array::add(Value const &) and add(Value &&): elements_.push_back(new Value{value})
ArrayAdd(arr, h, value) ==
    [v |-> [arr EXCEPT !.elements_ = Append(@, NewAddr(h))],
     heap |-> Alloc(h, ValueCopy(value))]

\* s.add(value) with a temporary made from a literal
AddScalar(s, value) ==
    /\ fault = "none"
    /\ Live(s) /\ slots[s].type = "Array"
    /\ HasRoom(heap)
    /\ LET r == ArrayAdd(slots[s].v, heap, value)
       IN  slots' = [slots EXCEPT ![s].v = r.v] /\ heap' = r.heap
    /\ UNCHANGED fault
    /\ UNCHANGED notHeapVars

\* s.add(src) with a variable src
AddObject(s, src) ==
    /\ fault = "none"
    /\ Live(s) /\ slots[s].type = "Array" /\ Live(src)
    /\ HasRoom(heap)
    /\ LET r == ArrayAdd(slots[s].v, heap, slots[src].v)
           st == EndOfCall([heap |-> r.heap, fault |-> fault], src)
       IN  slots' = [slots EXCEPT ![s].v = r.v] /\ heap' = st.heap /\ fault' = st.fault
    /\ UNCHANGED notHeapVars

\* s.set(name, value): (*this)[name] = value, value a temporary made from a
\* literal or a variable src
SetMember(s, name, value, src) ==
    /\ fault = "none"
    /\ Live(s) /\ slots[s].type = "Struct"
    /\ name \in DOMAIN slots[s].v.elementsByName_ \/ HasRoom(heap)
    /\ LET r == StructIndex(slots[s].v, heap, name)
           st == ValueAssign([heap |-> r.heap, fault |-> fault], r.ref, value)
           st2 == IF src \in Slots THEN EndOfCall(st, src) ELSE st
       IN  slots' = [slots EXCEPT ![s].v = r.s] /\ heap' = st2.heap /\ fault' = st2.fault
    /\ UNCHANGED notHeapVars

\* Array::operator [] (size_t): *elements_[i], unchecked
ArrayAt(arr, i) ==
    IF i + 1 \in DOMAIN arr.elements_ THEN arr.elements_[i + 1] ELSE WildRef

\* s[i] = value
AssignElement(s, i, value) ==
    /\ fault = "none"
    /\ Live(s) /\ slots[s].type = "Array"
    /\ LET a == ArrayAt(slots[s].v, i)
       IN  IF a \notin DOMAIN heap THEN heap' = heap /\ fault' = "out_of_range"
           ELSE IF ~heap[a].live THEN heap' = heap /\ fault' = "use_after_free"
           ELSE LET st == ValueAssign([heap |-> heap, fault |-> fault], a, value)
                IN  heap' = st.heap /\ fault' = st.fault
    /\ UNCHANGED slots
    /\ UNCHANGED notHeapVars

\* dst = src on two Value variables: Value::operator = (Value const &)
AssignValue(dst, src) ==
    /\ fault = "none"
    /\ dst # src
    /\ Live(dst) /\ Live(src)
    /\ slots[dst].type = "Value" /\ slots[src].type = "Value"
    /\ LET st == detach([heap |-> heap, fault |-> fault], slots[dst].v)
       IN  heap' = st.heap /\ fault' = st.fault
    /\ slots' = [slots EXCEPT ![dst].v = ValueCopy(slots[src].v)]
    /\ UNCHANGED notHeapVars

NextHeap ==
    \/ \E s \in Slots : Construct(s, "Array", EmptyArray)
    \/ \E s \in Slots : Construct(s, "Struct", EmptyStruct)
    \/ \E s \in Slots, v \in HeapScalars : Construct(s, "Value", v)
    \/ \E s, src \in Slots, asValue \in BOOLEAN : CopyConstruct(s, src, asValue)
    \/ \E s \in Slots : Destroy(s)
    \/ \E s \in Slots, v \in HeapScalars : AddScalar(s, v)
    \/ \E s, src \in Slots : AddObject(s, src)
    \/ \E s \in Slots, name \in HeapNames, v \in HeapScalars : SetMember(s, name, v, "")
    \/ \E s, src \in Slots, name \in HeapNames :
          Live(src) /\ SetMember(s, name, slots[src].v, src)
    \/ \E s \in Slots, i \in 0..MaxNodes, v \in HeapScalars : AssignElement(s, i, v)
    \/ \E dst, src \in Slots : AssignValue(dst, src)

SpecHeap == InitHeapSpec /\ [][NextHeap]_vars

-----------------------------------------------------------------------------
(* Claims about json::Struct *)

SamePayload(a, b) ==
    /\ a.kind_ = b.kind_
    /\ a.valueBool_ = b.valueBool_ /\ a.valueInt_ = b.valueInt_
    /\ a.valueDouble_ = b.valueDouble_ /\ a.valueString_ = b.valueString_
    /\ a.elements_ = b.elements_

Absent(name, s) == name \notin DOMAIN s.elementsByName_

\* C3: after any sequence of set calls and by-name lookups the name index agrees
\* with the sequence: every indexed name maps to the position of the entry of
\* that name, every entry's name is indexed, and no name occurs twice.
C3_IndexConsistent ==
    LET s == structObj
    IN  /\ \A n \in DOMAIN s.elementsByName_ :
              /\ s.elementsByName_[n] + 1 \in DOMAIN s.elements_
              /\ s.elements_[s.elementsByName_[n] + 1].first = n
        /\ \A i \in DOMAIN s.elements_ : s.elements_[i].first \in DOMAIN s.elementsByName_
        /\ \A i, j \in DOMAIN s.elements_ :
              i # j => s.elements_[i].first # s.elements_[j].first

C3_Witness ==
    /\ Len(structObj.elements_) = 3
    /\ last.op = "set"
    /\ ~Absent(last.name, last.pre)
    /\ structObj.elementsByName_[last.name] = 1

\* the value of the member called name
MemberValue(h, s, name) ==
    h[s.elements_[CHOOSE i \in DOMAIN s.elements_ : s.elements_[i].first = name].second].obj

RECURSIVE MembersInOrder(_, _, _, _)
MembersInOrder(h, s, order, i) ==
    IF i > Len(order) THEN <<>>
    ELSE <<"\"">> \o order[i] \o <<"\"">> \o TxtColon
         \o RenderValue(h, MemberValue(h, s, order[i]))
         \o (IF i < Len(order) THEN TxtSep ELSE <<>>)
         \o MembersInOrder(h, s, order, i + 1)

\* C4: set(name, value) on an absent name appends exactly one entry (name,
\* value); on a present name it replaces that entry's value in place; every
\* other entry, and the order, is unchanged.  The rendered text lists the
\* members in order of first insertion.
C4_SetInsertsOrOverwrites ==
    /\ last.op = "set" =>
          /\ fault = "none"
          /\ IF Absent(last.name, last.pre)
             THEN LET a == NewAddr(last.preHeap)
                  IN  /\ structObj.elements_ =
                            Append(last.pre.elements_, [first |-> last.name, second |-> a])
                      /\ DOMAIN heap = DOMAIN last.preHeap \cup {a}
                      /\ heap[a].live /\ SamePayload(heap[a].obj, last.arg)
                      /\ \A o \in DOMAIN last.preHeap : heap[o] = last.preHeap[o]
             ELSE LET a == ElementAt(last.pre, last.pre.elementsByName_[last.name])
                  IN  /\ structObj.elements_ = last.pre.elements_
                      /\ DOMAIN heap = DOMAIN last.preHeap
                      /\ heap[a].live /\ SamePayload(heap[a].obj, last.arg)
                      /\ \A o \in DOMAIN heap \ {a} : heap[o] = last.preHeap[o]
    /\ Firsts(structObj.elements_) = firstOrder
    /\ RenderValue(heap, structObj) =
          <<"{">> \o MembersInOrder(heap, structObj, firstOrder, 1) \o <<"}">>

C4_Witness ==
    /\ last.op = "set"
    /\ ~Absent(last.name, last.pre)
    /\ Len(structObj.elements_) = 3
    /\ structObj.elements_[1].first = last.name
    /\ ~SamePayload(last.preHeap[structObj.elements_[1].second].obj, last.arg)

ReadOfAbsent ==
    last.op \in {"read_const", "read_mutable"} /\ Absent(last.name, last.pre)

\* C5 as stated: s[name] == undefined for an absent name is true and leaves the
\* size, the sequence and the name index of s as they were.
C5_Original ==
    ReadOfAbsent => last.eq /\ structObj = last.pre

\* C5, amended: s[name] == undefined for an absent name is true; through the
\* const accessor it returns json::undefined itself and changes nothing; through
\* the mutable accessor it appends one entry.
C5_ReadOfAbsentName ==
    ReadOfAbsent =>
        /\ last.eq
        /\ fault = "none"
        /\ last.op = "read_const" =>
              structObj = last.pre /\ heap = last.preHeap /\ ref = 0
        /\ last.op = "read_mutable" =>
              Len(structObj.elements_) = Len(last.pre.elements_) + 1

C5_Witness ==
    /\ last.op = "read_const"
    /\ Absent(last.name, last.pre)
    /\ Len(structObj.elements_) = 2

\* C6: the mutable by-name lookup of an absent name appends exactly one entry
\* (name, Undefined), returns a reference to it, and the entry is rendered as
\* "name" : undefined; an assignment through the reference sets that entry's
\* value.  The lookup of a present name changes nothing.
C6_AutoVivification ==
    /\ last.op = "read_mutable" =>
          /\ fault = "none"
          /\ IF Absent(last.name, last.pre)
             THEN /\ ref = NewAddr(last.preHeap)
                  /\ structObj.elements_ =
                        Append(last.pre.elements_, [first |-> last.name, second |-> ref])
                  /\ DOMAIN structObj.elementsByName_ =
                        DOMAIN last.pre.elementsByName_ \cup {last.name}
                  /\ DOMAIN heap = DOMAIN last.preHeap \cup {ref}
                  /\ heap[ref] = [obj |-> Blank("Undefined"), live |-> TRUE]
                  /\ \A o \in DOMAIN last.preHeap : heap[o] = last.preHeap[o]
                  /\ RenderValue(heap, structObj) =
                        <<"{">> \o RenderStructFrom(last.preHeap, last.pre.elements_, 1)
                        \o (IF last.pre.elements_ # <<>> THEN TxtSep ELSE <<>>)
                        \o <<"\"">> \o last.name \o <<"\"">> \o TxtColon \o TxtUndefined
                        \o <<"}">>
             ELSE /\ structObj = last.pre /\ heap = last.preHeap
                  /\ \E i \in DOMAIN structObj.elements_ :
                        structObj.elements_[i] = [first |-> last.name, second |-> ref]
    /\ last.op = "assign_ref" =>
          /\ fault = "none"
          /\ structObj = last.pre /\ ref = last.preRef
          /\ \E i \in DOMAIN structObj.elements_ :
                structObj.elements_[i] = [first |-> last.name, second |-> ref]
          /\ heap[ref].live /\ SamePayload(heap[ref].obj, last.arg)
          /\ \A o \in DOMAIN heap \ {ref} : heap[o] = last.preHeap[o]

C6_Witness ==
    /\ last.op = "assign_ref"
    /\ last.name = <<"z", "a">>
    /\ Len(structObj.elements_) = 3
    /\ structObj.elements_[3] = [first |-> last.name, second |-> ref]
    /\ last.preHeap[ref].obj.kind_ = "Undefined"
    /\ heap[ref].obj.kind_ = "Bool"

-----------------------------------------------------------------------------
(* Comparisons *)

Foo == <<"f", "o", "o">>

\* The operands: every kind, equal and different payloads, with and without a
\* comment; a container is given by the pointers (and names) it holds.
ArrayOf(addrs) == [EmptyArray EXCEPT !.elements_ = addrs]
StructOf(name, addr) ==
    [EmptyStruct EXCEPT !.elements_ = <<[first |-> name, second |-> addr]>>,
                        !.elementsByName_ = (name :> 0)]
EqValues ==
    << undefined, setComment(undefined, Foo), ValueOfNull(<<>>),
       ValueOfBool(TRUE), ValueOfBool(FALSE), setComment(ValueOfBool(TRUE), Foo),
       ValueOfInt(1), ValueOfInt(2), setComment(ValueOfInt(1), Foo), ValueOfInt(0),
       ValueOfDouble(Dbl(10)), ValueOfDouble(Dbl(-1)), setComment(ValueOfDouble(Dbl(10)), Foo),
       ValueOfDouble(NaN),
       ValueOfString(<<"a">>), ValueOfString(<<"b">>), setComment(ValueOfString(<<"a">>), Foo),
       EmptyArray, ArrayOf(<<1, 2>>), ArrayOf(<<2, 1>>), ArrayOf(<<1>>),
       setComment(ArrayOf(<<1>>), Foo),
       EmptyStruct, StructOf(<<"a">>, 1), StructOf(<<"b">>, 1), StructOf(<<"a">>, 2) >>

InitEq ==
    /\ StartStore /\ StartStruct /\ StartSlots /\ StartParse /\ StartRender
    /\ \E i, j \in 1..Len(EqValues) : eqA = EqValues[i] /\ eqB = EqValues[j]
    /\ eqOut = NoCompare
    /\ asOut = NoAs
    /\ copyOut = NoCopy

\* a == b, b == a and a == a on Values
CompareValues ==
    /\ ~eqOut.done
    /\ eqOut' = [eqOut EXCEPT !.done = TRUE, !.ab = ValueEq(eqA, eqB),
                              !.ba = ValueEq(eqB, eqA), !.aa = ValueEq(eqA, eqA)]
    /\ UNCHANGED <<eqA, eqB, asOut, copyOut>>
    /\ UNCHANGED notEqVars

IsScalarVariant(k) == k \in {"Bool", "Int", "Double", "String"}

VariantEq(a, b) == CASE a.kind_ = "Bool" -> BoolEq(a, b)
                     [] a.kind_ = "Int" -> IntEq(a, b)
                     [] a.kind_ = "Double" -> DoubleEq(a, b)
                     [] a.kind_ = "String" -> StringEq(a, b)
VariantNe(a, b) == CASE a.kind_ = "Bool" -> BoolNe(a, b)
                     [] a.kind_ = "Int" -> IntNe(a, b)
                     [] a.kind_ = "Double" -> DoubleNe(a, b)
                     [] a.kind_ = "String" -> StringNe(a, b)

\* a == b and a != b on two Bool, two Int, two Double or two String objects
CompareVariants ==
    /\ ~eqOut.variantDone
    /\ eqA.kind_ = eqB.kind_ /\ IsScalarVariant(eqA.kind_)
    /\ eqOut' = [eqOut EXCEPT !.variantDone = TRUE, !.variantEq = VariantEq(eqA, eqB),
                              !.variantNe = VariantNe(eqA, eqB)]
    /\ UNCHANGED <<eqA, eqB, asOut, copyOut>>
    /\ UNCHANGED notEqVars

\* x == b on an Undefined object x and a Value b (EXPECT_EQ(x, json::undefined))
CompareUndefined ==
    /\ ~eqOut.undefinedDone
    /\ eqA.kind_ = "Undefined"
    /\ eqOut' = [eqOut EXCEPT !.undefinedDone = TRUE,
                              !.undefinedEq = UndefinedEqValue(eqA.comment_, eqB)]
    /\ UNCHANGED <<eqA, eqB, asOut, copyOut>>
    /\ UNCHANGED notEqVars

\* Value::as<Bool> and Value::as<Int>, the two specializations that are
\* defined: a reference to the payload, or throw "Expected bool but found"
ValueAs(v, T) ==
    IF v.kind_ # T
    THEN [returned |-> FALSE, payload |-> undefined, thrown |-> Literal(TxtExpectedBool)]
    ELSE [returned |-> TRUE, payload |-> v, thrown |-> NoException]

\* a.as<T>() on the Value a
As(T) ==
    /\ ~asOut.done
    /\ LET r == ValueAs(eqA, T)
       IN  asOut' = [done |-> TRUE, T |-> T, returned |-> r.returned,
                     payload |-> r.payload, thrown |-> r.thrown]
    /\ UNCHANGED <<eqA, eqB, eqOut, copyOut>>
    /\ UNCHANGED notEqVars

\* Value(Value &&): Undefined and Null are made afresh, every other payload
\* is move-constructed and holds what from held
ValueMove(from) ==
    IF from.kind_ \in {"Undefined", "Null"} THEN Blank(from.kind_) ELSE from

\* Value(Undefined), Value(Null), Value(Bool), ... Value(Struct const &): the
\* Value made from the variant object x
ValueOfVariant(x) ==
    CASE x.kind_ = "Undefined" -> ValueOfUndefined(x.comment_)
      [] x.kind_ = "Null" -> ValueOfNull(x.comment_)
      [] OTHER -> x

\* What a read of a payload whose lifetime has ended can give when it does not
\* give the old contents
Garbage == <<"?">>
Clobbered(v) ==
    [v EXCEPT !.comment_ = Garbage,
              !.valueString_ = IF v.kind_ = "String" THEN Garbage ELSE @]

\* a = a: operator = has no test for this == &other.  Undefined and Null are
\* made afresh.  For every other kind detach() ends the payload (String, Array,
\* Struct) or the placement new reuses its storage (Bool, Int, Double), and the
\* new payload is then copy-constructed from that same storage.
SelfAssignOutcomes(a) ==
    IF a.kind_ \in {"Undefined", "Null"}
    THEN {[b |-> Blank(a.kind_), fault |-> "none"]}
    ELSE {[b |-> a, fault |-> "use_after_free"],
          [b |-> Clobbered(a), fault |-> "use_after_free"]}

CopyOps == {"copy", "move", "from_variant", "assign", "move_assign", "self_assign"}

\* Value b(a), Value b(std::move(a)), Value b(x) for the variant object x,
\* b = a, b = std::move(a) (operator = (Value const &&) copies) and a = a.
\* The Value assigned to owns no element, so that its detach() deletes nothing.
CopyOutcomes(op) ==
    CASE op = "copy" -> {[b |-> ValueCopy(eqA), fault |-> "none"]}
      [] op = "move" -> {[b |-> ValueMove(eqA), fault |-> "none"]}
      [] op = "from_variant" -> {[b |-> ValueOfVariant(eqA), fault |-> "none"]}
      [] op \in {"assign", "move_assign"} -> {[b |-> ValueCopy(eqA), fault |-> "none"]}
      [] op = "self_assign" -> SelfAssignOutcomes(eqA)

Copy(op) ==
    /\ ~copyOut.done
    /\ op \in {"assign", "move_assign"} => Owned(eqB) = <<>>
    /\ op = "self_assign" => Owned(eqA) = <<>>
    /\ \E o \in CopyOutcomes(op) :
          /\ copyOut' = [done |-> TRUE, op |-> op, b |-> o.b]
          /\ fault' = o.fault
    /\ UNCHANGED <<eqA, eqB, eqOut, asOut>>
    /\ UNCHANGED <<heap, structVars, slots, parseVars, renderVars>>

NextEq ==
    \/ CompareValues
    \/ CompareVariants
    \/ CompareUndefined
    \/ \E T \in {"Bool", "Int"} : As(T)
    \/ \E op \in CopyOps : Copy(op)

SpecEq == InitEq /\ [][NextEq]_vars

IsNaN(v) == v.kind_ = "Double" /\ v.valueDouble_.nan

\* C8 as stated: Value equality is reflexive, symmetric, and never holds between
\* Values of different kinds.
C8_Original ==
    eqOut.done =>
        /\ eqOut.aa
        /\ eqOut.ab = eqOut.ba
        /\ eqA.kind_ # eqB.kind_ => ~eqOut.ab

\* C8, amended: v == v for every Value except a Double holding a NaN; a == b
\* exactly when b == a; Values of different kinds are never equal.
C8_EqualityLaws ==
    eqOut.done =>
        /\ ~IsNaN(eqA) => eqOut.aa
        /\ eqOut.ab = eqOut.ba
        /\ eqA.kind_ # eqB.kind_ => ~eqOut.ab

C8_Witness ==
    /\ eqOut.done
    /\ eqA = ValueOfInt(1) /\ eqB.kind_ = "Double" /\ eqB.valueDouble_ = Dbl(10)
    /\ ~eqOut.ab /\ eqOut.aa

\* the values of two variants of one kind are equal
SameScalar(a, b) ==
    /\ a.valueBool_ = b.valueBool_ /\ a.valueInt_ = b.valueInt_
    /\ DoubleValueEq(a.valueDouble_, b.valueDouble_) \/ a.kind_ # "Double"
    /\ a.valueString_ = b.valueString_

\* C10: for two Bools, Ints, Doubles or Strings, a == b exactly when the values
\* are equal, whatever the comments, and a != b exactly when they differ; an
\* Undefined with a comment equals json::undefined.
C10_ScalarEquality ==
    /\ eqOut.variantDone =>
          /\ eqOut.variantEq <=> SameScalar(eqA, eqB)
          /\ eqOut.variantNe <=> ~SameScalar(eqA, eqB)
    /\ eqOut.undefinedDone /\ eqB = undefined => eqOut.undefinedEq

-----------------------------------------------------------------------------
(* Claims about ownership and container equality *)

Range(f) == {f[i] : i \in DOMAIN f}

\* the live containers that hold the pointer a
OwnerCount(a) ==
    Cardinality({s \in Slots : Live(s) /\ a \in Range(Owned(slots[s].v))})
    + Cardinality({n \in DOMAIN heap : heap[n].live /\ a \in Range(Owned(heap[n].obj))})

\* C7: every child Value is owned by exactly one live Array or Struct (a copy
\* shares no child with its original), no container holds a pointer to a deleted
\* Value, and no Value is deleted twice or used after its deletion.
C7_ExclusiveOwnership ==
    fault # "out_of_range" =>
    /\ fault = "none"
    /\ \A a \in DOMAIN heap \ {0} : heap[a].live => OwnerCount(a) = 1
    /\ \A a \in DOMAIN heap \ {0} : ~heap[a].live => OwnerCount(a) = 0

\* every pointer reachable from v designates a live Value
RECURSIVE WellFormed(_, _)
WellFormed(h, v) ==
    \A a \in Range(Owned(v)) : a \in DOMAIN h /\ h[a].live /\ WellFormed(h, h[a].obj)

\* equality of the values: same kind, same scalar, and for containers the same
\* length with equal names and equal element values at every position
RECURSIVE SameValue(_, _, _)
SameValue(h, a, b) ==
    /\ a.kind_ = b.kind_
    /\ a.valueBool_ = b.valueBool_ /\ a.valueInt_ = b.valueInt_
    /\ a.valueDouble_ = b.valueDouble_ /\ a.valueString_ = b.valueString_
    /\ Len(a.elements_) = Len(b.elements_)
    /\ a.kind_ = "Struct" => Firsts(a.elements_) = Firsts(b.elements_)
    /\ \A i \in 1..Len(a.elements_) :
          SameValue(h, h[Owned(a)[i]].obj, h[Owned(b)[i]].obj)

ContainerEq(a, b) == IF a.kind_ = "Array" THEN ArrayEq(a, b) ELSE StructEq(a, b)
ContainerNe(a, b) == IF a.kind_ = "Array" THEN ArrayNe(a, b) ELSE StructNe(a, b)

\* C9: two Arrays (two Structs), the same object or built independently, are
\* equal exactly when they have the same length and equal element values (and
\* names) at every position; != is the opposite.
C9_StructuralEquality ==
    \A s, t \in Slots :
        (/\ Live(s) /\ Live(t)
         /\ IsContainer(s) /\ slots[s].type = slots[t].type
         /\ WellFormed(heap, slots[s].v) /\ WellFormed(heap, slots[t].v))
        => /\ ContainerEq(slots[s].v, slots[t].v) <=> SameValue(heap, slots[s].v, slots[t].v)
           /\ ContainerNe(slots[s].v, slots[t].v) <=> ~SameValue(heap, slots[s].v, slots[t].v)

-----------------------------------------------------------------------------
(* json::parse and Value::Parser *)

\* the line and column counters are kept modulo ColWrap
ColWrap == 4
\* of the std::string that a while (true) loop builds, the first MaxText
\* characters are kept
MaxText == 6
\* the activations of json::parse(std::istream &) that the stack has room for
MaxCalls == 3

\* char(EOF), what nextChar and peekChar return at the end of the input
EOFChar == "EOF"

Letters ==
    {"a", "b", "c", "d", "e", "f", "g", "h", "i", "j", "k", "l", "m",
     "n", "o", "p", "q", "r", "s", "t", "u", "v", "w", "x", "y", "z",
     "A", "B", "C", "D", "E", "F", "G", "H", "I", "J", "K", "L", "M",
     "N", "O", "P", "Q", "R", "S", "T", "U", "V", "W", "X", "Y", "Z"}

isDigit(c) == c \in {"1", "2", "3", "4", "5", "6", "7", "8", "9"}
isIdentifierStart(c) == c \in Letters \/ c = "_"
isIdentifier(c) == isIdentifierStart(c) \/ isDigit(c)

\* c - '0'
DigitValue(c) == CHOOSE d \in 0..9 : Digits[d + 1] = c

\* std::istream::get: the next character, or EOF with eofbit set when there is
\* none or the stream is no longer good
StreamGet(s) ==
    IF ~s.eofbit /\ s.pos < Len(s.text)
    THEN [c |-> s.text[s.pos + 1], s |-> [s EXCEPT !.pos = @ + 1]]
    ELSE [c |-> EOFChar, s |-> [s EXCEPT !.eofbit = TRUE]]

\* std::istream::peek
StreamPeek(s) ==
    IF ~s.eofbit /\ s.pos < Len(s.text)
    THEN [c |-> s.text[s.pos + 1], s |-> s]
    ELSE [c |-> EOFChar, s |-> [s EXCEPT !.eofbit = TRUE]]

\* Parser::nextChar, peekChar and eof; each gives the character and the Parser
\* it leaves
nextChar(p) ==
    LET r == StreamGet(p.s_)
    IN  [c |-> r.c,
         p |-> IF r.c = "\r"
               THEN [s_ |-> r.s, l_ |-> (p.l_ + 1) % ColWrap, c_ |-> 1]
               ELSE [s_ |-> r.s, l_ |-> p.l_, c_ |-> (p.c_ + 1) % ColWrap]]
peekChar(p) ==
    LET r == StreamPeek(p.s_)
    IN  [c |-> r.c, p |-> [p EXCEPT !.s_ = r.s]]
eof(p) == p.s_.eofbit

\* result += c, in a loop that ends with the input
AddChar(text, c) == Append(text, c)
\* result += c, in a while (true) loop
AddCharCapped(text, c) == IF Len(text) < MaxText THEN Append(text, c) ELSE text

\* the Token constructors
Token(l, c, kind) == [NoToken EXCEPT !.line = l, !.col = c, !.kind = kind]
TokenBool(l, c, value) == [Token(l, c, "Bool") EXCEPT !.valueBool_ = value]
TokenInt(l, c, value) == [Token(l, c, "Int") EXCEPT !.valueInt_ = value]
TokenString(l, c, kind, value) == [Token(l, c, kind) EXCEPT !.valueString_ = value]

Punctuation ==
    (":" :> "Colon") @@ ("," :> "Comma") @@ ("[" :> "SquareOpen")
    @@ ("]" :> "SquareClose") @@ ("{" :> "CurlyOpen") @@ ("}" :> "CurlyClose")
Whitespace == {" ", "\t", "\n", "\r"}

\* an activation of Parser::parse(Token) in its SquareOpen case (fn = "array":
\* the Array i, the Token t and the place reached) or of parseWithComment
NoFrame == [fn |-> "none", at |-> "", i |-> EmptyArray, t |-> "Undefined", comment |-> <<>>]
ArrayFrame == [NoFrame EXCEPT !.fn = "array", !.at = "first"]
CommentFrame(comment) == [NoFrame EXCEPT !.fn = "parseWithComment", !.comment = comment]

\* the positions at which the parse has stopped
Stopped == {"done", "threw", "ub", "stack_overflow"}

\* the free store holding the Values nodes at the addresses 1, 2, ...
HeapOf(nodes) ==
    [a \in 0..Len(nodes) |->
        [obj |-> IF a = 0 THEN undefined ELSE nodes[a], live |-> TRUE]]

\* The inputs: the text that operator << renders for a Value v (whose children
\* are nodes), and texts written by hand
Rendered(v, nodes) ==
    [text |-> RenderValue(HeapOf(nodes), v), given |-> TRUE, v |-> v, nodes |-> nodes]
Written(text) == [text |-> text, given |-> FALSE, v |-> undefined, nodes |-> <<>>]

ParseInputs ==
    << Rendered(undefined, <<>>), Rendered(ValueOfNull(<<>>), <<>>),
       Rendered(ValueOfBool(TRUE), <<>>), Rendered(ValueOfBool(FALSE), <<>>),
       Rendered(ValueOfInt(5), <<>>), Rendered(ValueOfInt(0), <<>>),
       Rendered(ValueOfInt(10), <<>>), Rendered(ValueOfInt(-56), <<>>),
       Rendered(ValueOfDouble(Dbl(56)), <<>>), Rendered(ValueOfDouble(Dbl(10)), <<>>),
       Rendered(ValueOfDouble(NaN), <<>>),
       Rendered(ValueOfString(Foo), <<>>), Rendered(ValueOfString(<<>>), <<>>),
       Rendered(EmptyArray, <<>>),
       Rendered(ArrayOf(<<1>>), <<ValueOfInt(4)>>),
       Rendered(ArrayOf(<<1, 2>>), <<ValueOfInt(4), ValueOfBool(TRUE)>>),
       Rendered(ArrayOf(<<2>>), <<ValueOfInt(4), ArrayOf(<<1>>)>>),
       Rendered(EmptyStruct, <<>>),
       Rendered(StructOf(<<"a">>, 1), <<ValueOfInt(1)>>),
       Written(<<>>),
       Written(<<"/", "*", "a", "*", "/", "5">>),
       Written(<<"/", "/", "a", "\n", "t", "r", "u", "e">>),
       Written(<<"/", "/", "a">>),
       Written(<<"/", "*", "a">>),
       Written(<<"/", "*", "a", "*", "*", "/", "5">>),
       Written(<<"/", "a", " ", "5">>),
       Written(<<"[", "1", ",", "]">>),
       Written(<<"[", "1", " ", "2", "]">>),
       Written(<<"[", "/", "*", "c", "*", "/", "n", "u", "l", "l", "]">>),
       Written(<<"[", "[", "]", "]">>),
       Written(<<"[", "1">>),
       Written(<<"'", "a", "\\", "n", "'">>),
       Written(<<"\r", "\n", "n", "u", "l", "l">>),
       Written(<<"1", "2", "a">>),
       Written(<<"x", "1">>),
       Written(<<"]">>),
       Written(<<"/", "*", "a", "*", "/", "n", "u", "l", "l">>),
       Written(<<"[", "1", ",", " ", "2", ",", "]">>),
       Written(<<"[", "1", ",", " ", ",", " ", "2", "]">>),
       Written(<<"\"", "a">>),
       Written(<<"{", "\"", "a", "\"", ":", "1", ",", "}">>) >>

\* what the language leaves to the compiler: the call of json::parse(std::istream &)
\* to itself (a jump to its start, a call on a new stack frame, or code taken
\* as unreachable because the recursion has no side effect), and whether
\* parseWithComment's "return result" constructs the result in place
Builds == [selfCall : {"jump", "call", "unreachable"}, nrvo : BOOLEAN]

\* json::parse(text), or Value::Parser{s}.parse() on a stream s holding text
InitParse ==
    /\ StartStruct /\ StartSlots /\ StartEq /\ StartRender
    /\ fault = "none"
    /\ \E n \in 1..Len(ParseInputs) :
          /\ heap = HeapOf(ParseInputs[n].nodes)
          /\ parser = NewParser(ParseInputs[n].text)
          /\ orig = [given |-> ParseInputs[n].given, v |-> ParseInputs[n].v]
    /\ pc \in {"parse_cstr", "next"}
    /\ build \in Builds
    /\ calls = 0
    /\ local = NoLocal
    /\ tok = NoToken
    /\ frames = <<>>
    /\ val = undefined
    /\ result = undefined
    /\ thrown = NoException

\* json::parse(char const * str): std::stringstream s{str}; return parse(s);
ParseCString ==
    /\ pc = "parse_cstr"
    /\ pc' = "parse_stream"
    /\ calls' = 1
    /\ UNCHANGED <<parser, build, local, tok, frames, val, result, orig, thrown, heap, fault>>
    /\ UNCHANGED notParseVars

\* json::parse(std::istream & s), up to the call in its return statement
ParseStream ==
    /\ pc = "parse_stream"
    /\ pc' = "parse_stream_call"
    /\ UNCHANGED <<parser, calls, build, local, tok, frames, val, result, orig, thrown, heap, fault>>
    /\ UNCHANGED notParseVars

\* the call parse(s) in json::parse(std::istream & s): overload resolution
\* picks json::parse(std::istream &) itself
ParseStreamCall ==
    /\ pc = "parse_stream_call"
    /\ CASE build.selfCall = "jump" -> pc' = "parse_stream" /\ UNCHANGED calls
         [] build.selfCall = "call" /\ calls < MaxCalls ->
                pc' = "parse_stream" /\ calls' = calls + 1
         [] build.selfCall = "call" /\ calls >= MaxCalls ->
                pc' = "stack_overflow" /\ UNCHANGED calls
         [] build.selfCall = "unreachable" -> pc' = "ub" /\ UNCHANGED calls
    /\ UNCHANGED <<parser, build, local, tok, frames, val, result, orig, thrown, heap, fault>>
    /\ UNCHANGED notParseVars

\* Parser::next, one turn of its loop: a punctuation Token, the start of a
\* comment, a string, a number or an identifier, or the next turn (whitespace,
\* and any other character, since error does nothing)
next ==
    /\ pc = "next" /\ fault = "none"
    /\ LET r == nextChar(parser)
           here == [NoLocal EXCEPT !.l = r.p.l_, !.c = r.p.c_]
           to == CASE r.c \in DOMAIN Punctuation ->
                        [pc |-> "parse_token", local |-> NoLocal,
                         tok |-> Token(r.p.l_, r.p.c_, Punctuation[r.c])]
                   [] r.c = "/" -> [pc |-> "nextComment", local |-> here, tok |-> tok]
                   [] r.c \in {"\"", "'"} ->
                        [pc |-> "nextString", local |-> [here EXCEPT !.delimiter = r.c],
                         tok |-> tok]
                   [] r.c \in Whitespace -> [pc |-> "next", local |-> local, tok |-> tok]
                   [] isDigit(r.c) ->
                        [pc |-> "nextNumber", local |-> [here EXCEPT !.number = DigitValue(r.c)],
                         tok |-> tok]
                   [] isIdentifierStart(r.c) ->
                        [pc |-> "nextIdentifier", local |-> [here EXCEPT !.result = <<r.c>>],
                         tok |-> tok]
                   [] OTHER -> [pc |-> "next", local |-> local, tok |-> tok]
       IN  parser' = r.p /\ pc' = to.pc /\ local' = to.local /\ tok' = to.tok
    /\ UNCHANGED <<calls, build, frames, val, result, orig, thrown, heap, fault>>
    /\ UNCHANGED notParseVars

\* Parser::nextComment, its switch on the character after '/'
nextComment ==
    /\ pc = "nextComment" /\ fault = "none"
    /\ LET r == nextChar(parser)
       IN  /\ parser' = r.p
           /\ CASE r.c = "/" -> pc' = "nextComment_line" /\ UNCHANGED <<local, tok>>
                [] r.c = "*" -> pc' = "nextComment_block" /\ UNCHANGED <<local, tok>>
                [] OTHER -> /\ pc' = "parse_token"
                            /\ tok' = TokenString(local.l, local.c, "Comment", local.result)
                            /\ local' = NoLocal
    /\ UNCHANGED <<calls, build, frames, val, result, orig, thrown, heap, fault>>
    /\ UNCHANGED notParseVars

\* one turn of while (! eof()) in a single line comment
nextCommentLine ==
    /\ pc = "nextComment_line" /\ fault = "none"
    /\ LET r == nextChar(parser)
       IN  IF eof(parser) \/ r.c = "\n"
           THEN /\ parser' = (IF eof(parser) THEN parser ELSE r.p)
                /\ pc' = "parse_token"
                /\ tok' = TokenString(local.l, local.c, "Comment", local.result)
                /\ local' = NoLocal
           ELSE /\ parser' = r.p
                /\ local' = [local EXCEPT !.result = AddChar(@, r.c)]
                /\ UNCHANGED <<pc, tok>>
    /\ UNCHANGED <<calls, build, frames, val, result, orig, thrown, heap, fault>>
    /\ UNCHANGED notParseVars

\* one turn of while (true) in a multi-line comment
nextCommentBlock ==
    /\ pc = "nextComment_block" /\ fault = "none"
    /\ LET r == nextChar(parser)
           r2 == nextChar(r.p)
       IN  IF r.c = "*" /\ r2.c = "/"
           THEN /\ parser' = r2.p
                /\ pc' = "parse_token"
                /\ tok' = TokenString(local.l, local.c, "Comment", local.result)
                /\ local' = NoLocal
           ELSE IF r.c = "*"
           THEN /\ parser' = r2.p
                /\ local' = [local EXCEPT !.result = AddCharCapped(AddCharCapped(@, r.c), r2.c)]
                /\ UNCHANGED <<pc, tok>>
           ELSE /\ parser' = r.p
                /\ local' = [local EXCEPT !.result = AddCharCapped(@, r.c)]
                /\ UNCHANGED <<pc, tok>>
    /\ UNCHANGED <<calls, build, frames, val, result, orig, thrown, heap, fault>>
    /\ UNCHANGED notParseVars

\* what an escape sequence adds to the string
Escaped(text, c) ==
    CASE c \in {"\"", "'", "\\"} -> AddCharCapped(text, c)
      [] c = "t" -> AddCharCapped(text, "\t")
      [] c = "n" -> AddCharCapped(text, "\n")
      [] c = "r" -> AddCharCapped(text, "\r")
      [] OTHER -> text

\* Parser::nextString, one turn of while (true); no turn leaves the loop
nextString ==
    /\ pc = "nextString" /\ fault = "none"
    /\ LET r == nextChar(parser)
           r2 == nextChar(r.p)
       IN  IF r.c = "\\"
           THEN /\ parser' = r2.p
                /\ local' = [local EXCEPT !.result = Escaped(@, r2.c)]
           ELSE /\ parser' = r.p
                /\ local' = [local EXCEPT !.result = AddCharCapped(@, r.c)]
    /\ UNCHANGED <<pc, tok>>
    /\ UNCHANGED <<calls, build, frames, val, result, orig, thrown, heap, fault>>
    /\ UNCHANGED notParseVars

\* the Token for an identifier
Word(l, c, text) ==
    CASE text = <<"n", "u", "l", "l">> -> Token(l, c, "Null")
      [] text = TxtUndefined -> Token(l, c, "Undefined")
      [] text = TxtTrue -> TokenBool(l, c, TRUE)
      [] text = TxtFalse -> TokenBool(l, c, FALSE)
      [] OTHER -> TokenString(l, c, "Identifier", text)

\* Parser::nextIdentifier, one turn of its loop, or its return
nextIdentifier ==
    /\ pc = "nextIdentifier" /\ fault = "none"
    /\ LET pk == peekChar(parser)
           r == nextChar(pk.p)
       IN  IF ~eof(parser) /\ isIdentifier(pk.c)
           THEN /\ parser' = r.p
                /\ local' = [local EXCEPT !.result = AddChar(@, r.c)]
                /\ UNCHANGED <<pc, tok>>
           ELSE /\ parser' = (IF eof(parser) THEN parser ELSE pk.p)
                /\ pc' = "parse_token"
                /\ tok' = Word(local.l, local.c, local.result)
                /\ local' = NoLocal
    /\ UNCHANGED <<calls, build, frames, val, result, orig, thrown, heap, fault>>
    /\ UNCHANGED notParseVars

\* the elements of the Arrays i of the activations: what the destructors
\* delete when an exception leaves them
\* where the parse is after a step that deleted Values: at "ub" when one of
\* them had been deleted before
Unless(f, to) == IF f = "none" THEN to ELSE "ub"

RECURSIVE FrameElements(_)
FrameElements(fs) ==
    IF fs = <<>> THEN <<>> ELSE FrameElements(Tail(fs)) \o Head(fs).i.elements_

\* Parser::nextNumber, one turn of its loop, or its end: throw "" at a '.',
\* else an Int Token
nextNumber ==
    /\ pc = "nextNumber" /\ fault = "none"
    /\ LET pk == peekChar(parser)
           r == nextChar(pk.p)
       IN  IF isDigit(pk.c)
           THEN /\ parser' = r.p
                /\ local' = [local EXCEPT !.number = @ * 10 + DigitValue(r.c)]
                /\ UNCHANGED <<pc, tok, heap, fault>>
           ELSE IF pk.c = "."
           THEN /\ parser' = r.p
                /\ local' = NoLocal
                /\ LET st == DeleteSeq([heap |-> heap, fault |-> fault], FrameElements(frames))
                   IN  /\ heap' = st.heap /\ fault' = st.fault
                       /\ pc' = Unless(st.fault, "threw")
                /\ UNCHANGED tok
           ELSE /\ parser' = pk.p
                /\ pc' = "parse_token"
                /\ tok' = TokenInt(local.l, local.c, local.number)
                /\ local' = NoLocal
                /\ UNCHANGED <<heap, fault>>
    /\ thrown' = (IF pc' = "threw" THEN Literal(<<>>) ELSE thrown)
    /\ UNCHANGED <<calls, build, frames, val, result, orig>>
    /\ UNCHANGED notParseVars

\* Parser::parse(Token const & t), up to its first call or its return: the
\* position it goes to, the Value it returns and the activation it starts.  The
\* switch has no case for the other kinds, and control then flows off the end
\* of a function that returns a Value.  (No Token has the kind Double:
\* nextNumber makes none.)
ParseToken(t) ==
    CASE t.kind = "Comment" ->
            [pc |-> "next", val |-> undefined, push |-> <<CommentFrame(t.valueString_)>>]
      [] t.kind = "Undefined" ->
            [pc |-> "return_value", val |-> ValueOfUndefined(<<>>), push |-> <<>>]
      [] t.kind = "Null" ->
            [pc |-> "return_value", val |-> ValueOfNull(<<>>), push |-> <<>>]
      [] t.kind = "Bool" ->
            [pc |-> "return_value", val |-> ValueOfBool(t.valueBool_), push |-> <<>>]
      [] t.kind = "Int" ->
            [pc |-> "return_value", val |-> ValueOfInt(t.valueInt_), push |-> <<>>]
      [] t.kind = "String" ->
            [pc |-> "return_value", val |-> ValueOfString(t.valueString_), push |-> <<>>]
      [] t.kind = "SquareOpen" ->
            [pc |-> "next", val |-> undefined, push |-> <<ArrayFrame>>]
      [] t.kind = "CurlyOpen" ->
            [pc |-> "return_value", val |-> EmptyStruct, push |-> <<>>]
      [] OTHER -> [pc |-> "ub", val |-> undefined, push |-> <<>>]

Top(fs) == IF fs = <<>> THEN NoFrame ELSE fs[Len(fs)]
Pop(fs) == SubSeq(fs, 1, Len(fs) - 1)

\* The Token that next() returned reaches its caller: parse() and
\* parseWithComment hand it to parse(Token); the SquareOpen case looks at it
\* first (lines 800-811)
parseToken ==
    /\ pc = "parse_token" /\ fault = "none"
    /\ LET top == Top(frames)
           at == IF top.fn = "array" THEN top.at ELSE "value"
           goes == ParseToken(tok)
           unwound == DeleteSeq([heap |-> heap, fault |-> fault], FrameElements(frames))
           \* return i: the Value is made from i by Array's implicit copy
           \* constructor, then i is destroyed and deletes its elements
           returned == DeleteSeq([heap |-> heap, fault |-> fault], top.i.elements_)
       IN  CASE at \in {"first", "after_first", "after_comma"} /\ tok.kind = "SquareClose" ->
                    /\ pc' = Unless(returned.fault, "return_value") /\ val' = top.i
                    /\ frames' = Pop(frames)
                    /\ heap' = returned.heap /\ fault' = returned.fault
             [] at = "after_first" /\ tok.kind = "Comma" ->
                    /\ pc' = "next"
                    /\ frames' = Pop(frames) \o <<[top EXCEPT !.at = "after_comma"]>>
                    /\ UNCHANGED <<val, heap, fault>>
             [] at = "after_first" /\ tok.kind \notin {"Comma", "SquareClose"} ->
                    /\ pc' = Unless(unwound.fault, "threw")
                    /\ heap' = unwound.heap /\ fault' = unwound.fault
                    /\ UNCHANGED <<val, frames>>
             [] at \in {"first", "after_comma"} /\ tok.kind # "SquareClose" ->
                    /\ pc' = goes.pc /\ val' = goes.val
                    /\ frames' = Pop(frames)
                          \o <<[top EXCEPT !.at = (IF at = "first" THEN "add_first" ELSE "add_loop"),
                                           !.t = tok.kind]>>
                          \o goes.push
                    /\ UNCHANGED <<heap, fault>>
             [] OTHER ->
                    /\ pc' = goes.pc /\ val' = goes.val
                    /\ frames' = frames \o goes.push
                    /\ UNCHANGED <<heap, fault>>
    /\ thrown' = (IF pc' = "threw" THEN Literal(TxtError) ELSE thrown)
    /\ UNCHANGED <<parser, calls, build, local, tok, result, orig>>
    /\ UNCHANGED notParseVars

\* The Value that parse(Token) returned reaches its caller: parse() returns it
\* to the caller of the Parser; parseWithComment sets its comment and returns
\* it (constructed in place, or move-constructed and then destroyed); the
\* SquareOpen case adds it to i with add(Value &&), destroys the temporary and
\* goes on at line 803 or at the loop condition of line 804.
returnValue ==
    /\ pc = "return_value" /\ fault = "none"
    /\ LET top == Top(frames)
           commented == setComment(val, top.comment)
           moved == detach([heap |-> heap, fault |-> fault], commented)
           added == ArrayAdd(top.i, heap, val)
           after == detach([heap |-> added.heap, fault |-> fault], val)
           frame == [top EXCEPT !.i = added.v]
           unwound == DeleteSeq(after, FrameElements(Pop(frames) \o <<frame>>))
           returned == DeleteSeq(after, frame.i.elements_)
       IN  CASE top.fn = "none" ->
                    /\ pc' = "done" /\ result' = val
                    /\ UNCHANGED <<val, frames, heap, fault>>
             [] top.fn = "parseWithComment" /\ build.nrvo ->
                    /\ val' = commented
                    /\ frames' = Pop(frames)
                    /\ UNCHANGED <<pc, result, heap, fault>>
             [] top.fn = "parseWithComment" /\ ~build.nrvo ->
                    /\ val' = ValueCopy(commented)
                    /\ frames' = Pop(frames)
                    /\ heap' = moved.heap /\ fault' = moved.fault
                    /\ pc' = Unless(moved.fault, pc)
                    /\ UNCHANGED result
             [] top.fn = "array" /\ after.fault # "none" ->
                    /\ pc' = "ub"
                    /\ heap' = after.heap /\ fault' = after.fault
                    /\ UNCHANGED <<val, frames, result>>
             [] top.fn = "array" /\ after.fault = "none"
                  /\ (top.at = "add_first" \/ top.t = "Comma") ->
                    /\ pc' = "next"
                    /\ frames' = Pop(frames)
                          \o <<[frame EXCEPT !.at = (IF top.at = "add_first" THEN "after_first"
                                                     ELSE "after_comma")]>>
                    /\ heap' = after.heap /\ fault' = after.fault
                    /\ UNCHANGED <<val, result>>
             [] top.fn = "array" /\ after.fault = "none"
                  /\ top.at = "add_loop" /\ top.t \notin {"Comma", "SquareClose"} ->
                    /\ pc' = Unless(unwound.fault, "threw")
                    /\ heap' = unwound.heap /\ fault' = unwound.fault
                    /\ UNCHANGED <<val, frames, result>>
             [] top.fn = "array" /\ after.fault = "none"
                  /\ top.at = "add_loop" /\ top.t = "SquareClose" ->
                    /\ pc' = Unless(returned.fault, "return_value") /\ val' = frame.i
                    /\ frames' = Pop(frames)
                    /\ heap' = returned.heap /\ fault' = returned.fault
                    /\ UNCHANGED result
    /\ thrown' = (IF pc' = "threw" THEN Literal(TxtError) ELSE thrown)
    /\ UNCHANGED <<parser, calls, build, local, tok, orig>>
    /\ UNCHANGED notParseVars

NextParse ==
    \/ ParseCString
    \/ ParseStream
    \/ ParseStreamCall
    \/ next
    \/ nextComment
    \/ nextCommentLine
    \/ nextCommentBlock
    \/ nextString
    \/ nextIdentifier
    \/ nextNumber
    \/ parseToken
    \/ returnValue

SpecParse == InitParse /\ [][NextParse]_vars

\* the program keeps running: a step that can be taken is taken
SpecParseFair == SpecParse /\ WF_vars(NextParse)

-----------------------------------------------------------------------------
(* Claims about parsing *)

\* C1: on every input, parsing terminates: it returns a Value or it fails with
\* an error.
C1_ParseTerminates == <>(pc \in {"done", "threw"})

\* C2: for every Value v, parsing the text that v renders to ends, and it
\* returns a Value equal to v.
C2_RoundTrip ==
    orig.given /\ pc \in Stopped => pc = "done" /\ ValueEq(result, orig.v)

\* the parse was started on a Value::Parser (not through json::parse) with text
ParserOn(text) == calls = 0 /\ parser.s_.text = text

\* a comment c followed by the text of the Value v, at top level or as the only
\* element of an array
CommentCases ==
    << [text |-> <<"/", "*", "a", "*", "/", "5">>, c |-> <<"a">>,
        v |-> ValueOfInt(5), element |-> FALSE],
       [text |-> <<"/", "/", "a", "\n", "t", "r", "u", "e">>, c |-> <<"a">>,
        v |-> ValueOfBool(TRUE), element |-> FALSE],
       [text |-> <<"/", "*", "a", "*", "/", "n", "u", "l", "l">>, c |-> <<"a">>,
        v |-> ValueOfNull(<<>>), element |-> FALSE],
       [text |-> <<"/", "*", "a", "*", "*", "/", "5">>, c |-> <<"a", "*">>,
        v |-> ValueOfInt(5), element |-> FALSE],
       [text |-> <<"[", "/", "*", "c", "*", "/", "n", "u", "l", "l", "]">>, c |-> <<"c">>,
        v |-> ValueOfNull(<<>>), element |-> TRUE] >>

\* v is an Array whose only element is the live Value e
OnlyElement(h, v, e) ==
    /\ v.kind_ = "Array" /\ Len(v.elements_) = 1
    /\ h[v.elements_[1]].live /\ h[v.elements_[1]].obj = e

\* C11: parsing a comment c followed by the text of a value v, at top level or
\* as an array element, returns the Value of v with comment() equal to c.
C11_CommentAttachment ==
    \A n \in 1..Len(CommentCases) :
        ParserOn(CommentCases[n].text) /\ pc \in Stopped =>
            /\ pc = "done"
            /\ IF CommentCases[n].element
               THEN OnlyElement(heap, result, setComment(CommentCases[n].v, CommentCases[n].c))
               ELSE result = setComment(CommentCases[n].v, CommentCases[n].c)

\* v is an Array whose elements are live and hold the Values es, in order
ElementsAre(h, v, es) ==
    /\ v.kind_ = "Array" /\ Len(v.elements_) = Len(es)
    /\ \A i \in 1..Len(es) : h[v.elements_[i]].live /\ h[v.elements_[i]].obj = es[i]

\* array texts with a comma before the closing ']', and the elements of the
\* array that the text without that comma denotes
TrailingCommaCases ==
    << [text |-> <<"[", "1", ",", "]">>, es |-> <<ValueOfInt(1)>>],
       [text |-> <<"[", "1", ",", " ", "2", ",", "]">>,
        es |-> <<ValueOfInt(1), ValueOfInt(2)>>] >>

\* C12: an array text of n >= 1 elements with one comma before the closing ']'
\* parses to a Value, the Array of the n elements, as the text without the
\* comma does.
C12_TrailingComma ==
    \A n \in 1..Len(TrailingCommaCases) :
        ParserOn(TrailingCommaCases[n].text) /\ pc \in Stopped =>
            pc = "done" /\ ElementsAre(heap, result, TrailingCommaCases[n].es)

\* texts with a token that cannot start a value where a value is required, or
\* with a token other than ',' or ']' after an array element
GrammarViolations ==
    { <<"]">>, <<"x", "1">>, <<"[", "1", " ", "2", "]">>,
      <<"[", "1", ",", " ", ",", " ", "2", "]">> }

\* C13: on a grammar violation parse returns no Value and fails with
\* UnexpectedToken.
C13_UnexpectedToken ==
    \A text \in GrammarViolations :
        ParserOn(text) =>
            /\ pc # "done"
            /\ pc \in Stopped => pc = "threw" /\ thrown.type = "UnexpectedToken"

\* texts with an unterminated string literal, an unterminated block comment,
\* or a character that starts no token
MalformedTokens ==
    { <<"\"", "a">>, <<"/", "*", "a">>, <<"-", "5", "6">> }

\* C14: on a malformed token the tokenizer produces no token and the parse no
\* Value; the parse fails with UnterminatedLiteral or UnexpectedCharacter.
C14_MalformedTokenFails ==
    \A text \in MalformedTokens :
        ParserOn(text) =>
            /\ pc \notin {"parse_token", "return_value", "done"}
            /\ pc \in Stopped =>
                  /\ pc = "threw"
                  /\ thrown.type \in {"UnterminatedLiteral", "UnexpectedCharacter"}

\* struct texts, with the names and the Values of their members in order of
\* appearance
StructCases ==
    << [text |-> RenderValue(HeapOf(<<ValueOfInt(1)>>), StructOf(<<"a">>, 1)),
        names |-> << <<"a">> >>, vs |-> <<ValueOfInt(1)>>],
       [text |-> <<"{", "}">>, names |-> <<>>, vs |-> <<>>] >>

\* v is a Struct whose members have the names and hold the Values vs, in order
MembersAre(h, v, names, vs) ==
    /\ v.kind_ = "Struct" /\ Len(v.elements_) = Len(vs)
    /\ Firsts(v.elements_) = names
    /\ \A i \in 1..Len(vs) :
          h[v.elements_[i].second].live /\ h[v.elements_[i].second].obj = vs[i]

\* C15: parsing a struct text consumes the input up to and including the
\* matching '}' and returns a Struct with the parsed members in order of
\* appearance.
C15_StructParse ==
    \A n \in 1..Len(StructCases) :
        ParserOn(StructCases[n].text) /\ pc \in Stopped =>
            /\ pc = "done"
            /\ MembersAre(heap, result, StructCases[n].names, StructCases[n].vs)
            /\ parser.s_.pos = Len(StructCases[n].text)

\* C16: parsing the text of an Array of n >= 0 elements (nested ones too)
\* returns an Array of n elements, each equal to the Value its text denotes, in
\* order, and consumes the input exactly up to the matching ']'.
C16_ArrayParse ==
    calls = 0 /\ orig.given /\ orig.v.kind_ = "Array" /\ pc \in Stopped =>
        /\ pc = "done"
        /\ WellFormed(heap, result)
        /\ SameValue(heap, result, orig.v)
        /\ parser.s_.pos = Len(parser.s_.text)

-----------------------------------------------------------------------------
(* Claims about access *)

\* C17: indexed access on an Array is bounds-checked: an index outside
\* [0, size) is rejected and elements_ is never read past its end.
C17_IndexChecked == fault # "out_of_range"

\* C18: as<T> returns the payload when the Value's kind is T, and otherwise
\* fails with a TypeMismatch that carries the expected kind T and the actual
\* kind; the Value is unchanged.
C18_AsChecksKind ==
    asOut.done =>
        IF eqA.kind_ = asOut.T
        THEN asOut.returned /\ asOut.payload = eqA
        ELSE /\ ~asOut.returned
             /\ asOut.thrown.type = "TypeMismatch"
             /\ asOut.thrown.what = <<asOut.T, eqA.kind_>>

-----------------------------------------------------------------------------
(* Rendering to a stream *)

\* the Struct of TEST(json, Struct) after x.set("foo", "bar") and x["bar"] = true
TestStruct ==
    [EmptyStruct EXCEPT
        !.elements_ = <<[first |-> Foo, second |-> 1],
                        [first |-> <<"b", "a", "r">>, second |-> 2]>>,
        !.elementsByName_ = (Foo :> 0) @@ (<<"b", "a", "r">> :> 1)]

\* Values without comments (v, with the children nodes), and the text that the
\* tests and the per-kind forms give for them
RenderCases ==
    <<
       [v |-> undefined,
        nodes |-> <<>>,
        text |-> <<"u", "n", "d", "e", "f", "i", "n", "e", "d">>],
       [v |-> ValueOfNull(<<>>),
        nodes |-> <<>>,
        text |-> <<"N", "u", "l", "l">>],
       [v |-> ValueOfBool(TRUE),
        nodes |-> <<>>,
        text |-> <<"t", "r", "u", "e">>],
       [v |-> ValueOfBool(FALSE),
        nodes |-> <<>>,
        text |-> <<"f", "a", "l", "s", "e">>],
       [v |-> ValueOfInt(0),
        nodes |-> <<>>,
        text |-> <<"0">>],
       [v |-> ValueOfInt(-56),
        nodes |-> <<>>,
        text |-> <<"-", "5", "6">>],
       [v |-> ValueOfDouble(Dbl(-1)),
        nodes |-> <<>>,
        text |-> <<"-", "0", ".", "1">>],
       [v |-> ValueOfDouble(Dbl(565)),
        nodes |-> <<>>,
        text |-> <<"5", "6", ".", "5">>],
       [v |-> ValueOfString(<<"f", "o", "o", "b", "a", "r">>),
        nodes |-> <<>>,
        text |-> <<"\"", "f", "o", "o", "b", "a", "r", "\"">>],
       [v |-> EmptyArray,
        nodes |-> <<>>,
        text |-> <<"[", "]">>],
       [v |-> EmptyStruct,
        nodes |-> <<>>,
        text |-> <<"{", "}">>],
       [v |-> ArrayOf(<<1, 2, 3, 4, 5, 6, 7>>),
        nodes |-> <<ValueOfInt(4), ValueOfDouble(Dbl(56)), ValueOfBool(TRUE), ValueOfBool(FALSE),
           ValueOfString(Foo), ValueOfNull(<<>>), undefined>>,
        text |-> <<"[", "4", ",", " ", "5", ".", "6", ",", " ", "t", "r", "u", "e", ",", " ", "f", "a", "l", "s", "e", ",", " ", "\"", "f", "o", "o", "\"", ",", " ", "N", "u", "l", "l", ",", " ", "u", "n", "d", "e", "f", "i", "n", "e", "d", "]">>],
       [v |-> TestStruct,
        nodes |-> <<ValueOfString(<<"b", "a", "r">>), ValueOfBool(TRUE)>>,
        text |-> <<"{", "\"", "f", "o", "o", "\"", " ", ":", " ", "\"", "b", "a", "r", "\"", ",", " ", "\"", "b", "a", "r", "\"", " ", ":", " ", "t", "r", "u", "e", "}">>],
       [v |-> ArrayOf(<<2>>),
        nodes |-> <<ValueOfInt(4), ArrayOf(<<1>>)>>,
        text |-> <<"[", "[", "4", "]", "]">>] >>

Comments == {<<>>, Foo}

\* a Value with its children, nothing written yet
InitRender ==
    /\ StartStruct /\ StartSlots /\ StartEq /\ StartParse
    /\ fault = "none"
    /\ \E n \in 1..Len(RenderCases) :
          doc = RenderCases[n].v /\ heap = HeapOf(RenderCases[n].nodes)
    /\ out = NoOutput

\* doc.setComment(c)
SetDocComment(c) ==
    /\ doc.comment_ # c
    /\ doc' = setComment(doc, c)
    /\ UNCHANGED <<heap, out>>
    /\ UNCHANGED notRenderVars

\* setComment(c) on the child at address a, reached through operator []
SetChildComment(a, c) ==
    /\ heap[a].obj.comment_ # c
    /\ heap' = [heap EXCEPT ![a].obj = setComment(@, c)]
    /\ UNCHANGED <<doc, out>>
    /\ UNCHANGED notRenderVars

\* s << doc
Render ==
    /\ out' = [done |-> TRUE, text |-> RenderValue(heap, doc)]
    /\ UNCHANGED <<doc, heap>>
    /\ UNCHANGED notRenderVars

NextRender ==
    \/ \E c \in Comments : SetDocComment(c)
    \/ \E a \in DOMAIN heap \ {0}, c \in Comments : SetChildComment(a, c)
    \/ Render

SpecRender == InitRender /\ [][NextRender]_vars

\* the Value and the free store with every comment removed
Plain(v) == setComment(v, <<>>)
PlainHeap(h) == [a \in DOMAIN h |-> [obj |-> Plain(h[a].obj), live |-> h[a].live]]

\* C19: rendering follows the per-kind form, with the elements and members in
\* insertion order, and never shows a comment: a Value renders to the text of
\* the same Value without comments.
C19_Rendering ==
    out.done =>
        \A n \in 1..Len(RenderCases) :
            (Plain(doc) = RenderCases[n].v /\ PlainHeap(heap) = HeapOf(RenderCases[n].nodes))
            => out.text = RenderCases[n].text

C19_Witness ==
    /\ out.done
    /\ doc.kind_ = "Array" /\ Len(doc.elements_) = 7
    /\ doc.comment_ = Foo /\ heap[1].obj.comment_ = Foo /\ heap[6].obj.comment_ = Foo
    /\ out.text = RenderCases[12].text

-----------------------------------------------------------------------------
(* Claims about string literals *)

\* texts that are one string literal, and the characters between its delimiters
\* with the escapes decoded
StringCases ==
    << [text |-> <<"\"", "f", "o", "o", "\"">>, payload |-> Foo],
       [text |-> <<"\"", "\"">>, payload |-> <<>>],
       [text |-> <<"'", "a", "\\", "n", "'">>, payload |-> <<"a", "\n">>] >>

\* C20: a string literal ends at the next unescaped occurrence of its opening
\* delimiter: the tokenizer is done with the literal once it has read the
\* closing delimiter, the String token holds the decoded characters in between,
\* and nothing after the closing delimiter is read.
C20_StringLiteral ==
    \A n \in 1..Len(StringCases) :
        ParserOn(StringCases[n].text) =>
            /\ pc = "nextString" => parser.s_.pos < Len(StringCases[n].text)
            /\ pc = "parse_token" =>
                  /\ tok.kind = "String" /\ tok.valueString_ = StringCases[n].payload
                  /\ parser.s_.pos = Len(StringCases[n].text)

-----------------------------------------------------------------------------
(* Claims about numeric literals *)

\* texts that are one numeric literal, with the kind and the value of its token
NumberCases ==
    << [text |-> <<"5">>, kind |-> "Int", value |-> 5],
       [text |-> <<"1", "0">>, kind |-> "Int", value |-> 10],
       [text |-> <<"0">>, kind |-> "Int", value |-> 0],
       [text |-> <<"5", ".", "6">>, kind |-> "Double", value |-> 0] >>

\* C21: a numeric literal is the whole run of digits 0-9 from its first digit:
\* the tokenizer drops no digit, throws nothing, and returns one Int token with
\* the decimal value of the run, or one Double token when a fractional part
\* follows, having read the whole literal.
C21_NumericLiteral ==
    \A n \in 1..Len(NumberCases) :
        ParserOn(NumberCases[n].text) =>
            /\ pc = "next" => parser.s_.pos = 0
            /\ pc # "threw"
            /\ pc = "parse_token" =>
                  /\ tok.kind = NumberCases[n].kind
                  /\ tok.kind = "Int" => tok.valueInt_ = NumberCases[n].value
                  /\ parser.s_.pos = Len(NumberCases[n].text)

-----------------------------------------------------------------------------
(* Claims about copies *)

\* C22: constructing b from a (a Value or a variant object), b = a and a = a
\* preserve the whole node for every kind: b has the discriminant, the value
\* and the comment that a had.
C22_CopyPreservesNode ==
    copyOut.done =>
        /\ copyOut.b.kind_ = eqA.kind_
        /\ copyOut.b = [eqA EXCEPT !.comment_ = copyOut.b.comment_]
        /\ copyOut.b.comment_ = eqA.comment_

====
